---- MODULE Spec2Model ----
(***************************************************************************)
(* Model of src/models/Complaint.js: the Complaint document's priority     *)
(* classifier (calculatePriority), its update log (addUpdate, save and the *)
(* pre-save ticket id hook) and the request rate limiter middleware.       *)
(*                                                                         *)
(* Scores are fixed-point numbers in tenths: urgency 6.5 is 65, sentiment  *)
(* -0.5 is -5.  A score that is absent from the document is <<>>, a score  *)
(* that is present is <<v>>.                                               *)
(***************************************************************************)
EXTENDS Integers, Sequences, FiniteSets, TLC

VARIABLES
    \* ---- priority classifier ----
    urgencyScore,    \* this.aiAnalysis.urgencyScore
    sentimentScore,  \* this.aiAnalysis.sentiment.score
    priority,        \* this.priority
    ret,             \* value returned by the last calculatePriority call, <<>> before
    \* ---- update log and persistence ----
    doc,             \* the in-memory document: ticketId, status, updates
    persisted,       \* the stored copy written by the last successful save
    calls,           \* per caller: the addUpdate / save call in flight
    started,         \* number of calls made so far
    callLog,         \* the entries built by the addUpdate calls, in call order
    hookRuns,        \* number of times the pre-save hook has run
    overlap,         \* some call started while another was in flight
    failed,          \* number of calls whose save was rejected
    completed,       \* the addUpdate calls whose save resolved, in completion order
    \* ---- rate limiter ----
    now,             \* the clock, in seconds
    storage,         \* RateLimiterMemory: per key, the counter and its expiry
    reqs,            \* per request slot: the middleware's position
    admitted,        \* per key: next() calls made in the key's current window
    windowStart,     \* per key: time the current window was opened
    exhausted        \* per key: a request was rejected in the current window

priorityVars == <<urgencyScore, sentimentScore, priority, ret>>
lifecycleVars == <<doc, persisted, calls, started, callLog, hookRuns, overlap, failed, completed>>
limiterVars == <<storage, reqs, admitted, windowStart, exhausted>>
vars == <<priorityVars, lifecycleVars, now, limiterVars>>

-----------------------------------------------------------------------------
(* Bounds *)

\* how far, in tenths, the supplied scores may lie outside their documented range
Over == 10

-----------------------------------------------------------------------------
(* Priority classifier *)

Absent == <<>>

\* aiAnalysis.urgencyScore: documented range [0,10]; aiAnalysis.sentiment.score: [-1,1]
UrgencyInputs == {Absent} \cup { <<u>> : u \in (0 - Over)..(100 + Over) }
SentimentInputs == {Absent} \cup { <<s>> : s \in (-10 - Over)..(10 + Over) }

\* JavaScript's  x || d  on a number: undefined and 0 are falsy
OrDefault(x, d) == IF x = Absent THEN d ELSE IF x[1] = 0 THEN d ELSE x[1]

\* the tier calculatePriority computes from the two stored scores
PriorityOf(us, ss) ==
    LET urgency == OrDefault(us, 50)
        sentiment == OrDefault(ss, 0)
    IN  IF urgency >= 80 \/ (urgency >= 60 /\ sentiment <= -5) THEN "Critical"
        ELSE IF urgency >= 60 \/ (urgency >= 40 /\ sentiment <= -3) THEN "High"
        ELSE IF urgency >= 30 THEN "Medium"
        ELSE "Low"

\* the analysis collaborator stores a new urgency score on the document
SetUrgencyScore(us) ==
    /\ urgencyScore' = us
    /\ ret' = <<>>
    /\ UNCHANGED <<sentimentScore, priority, lifecycleVars, now, limiterVars>>

\* the analysis collaborator stores a new sentiment score on the document
SetSentimentScore(ss) ==
    /\ sentimentScore' = ss
    /\ ret' = <<>>
    /\ UNCHANGED <<urgencyScore, priority, lifecycleVars, now, limiterVars>>

calculatePriority ==
    /\ ret = <<>>
    /\ priority' = PriorityOf(urgencyScore, sentimentScore)
    /\ ret' = <<priority'>>
    /\ UNCHANGED <<urgencyScore, sentimentScore, lifecycleVars, now, limiterVars>>

-----------------------------------------------------------------------------
(* Update log, save and the pre-save hook *)

\* bound on the number of addUpdate / save calls made on the document
MaxCalls == 2

\* bound on the clock of the update log (Date.now(), new Date())
MaxClock == 1

\* the values of the status enum
StatusEnum == {"submitted", "received", "under_review", "investigating",
               "pending_response", "resolved", "closed", "escalated"}

\* a status argument that is undefined (falsy)
NoStatus == ""

\* the status arguments the callers pass
StatusArgs == {NoStatus, "resolved", "closed", "bogus"}

\* the isInternal arguments the callers pass: the parameter's default
InternalArgs == {FALSE}

\* a document that has no ticketId yet
NoId == <<>>

\* the ticketId given to the constructor: none, or one chosen by the caller
ConstructorIds == {NoId, <<0, 0>>}

\* the values Math.random() contributes to a ticket id
Randoms == {1, 2}

\* the concurrent callers (request handlers) that hold the document
Callers == {"c1", "c2"}

Idle == [pc |-> "idle", kind |-> "", status |-> NoStatus, err |-> "",
         pre |-> [status |-> "", updates |-> <<>>]]

\* schema validation run by save(): ticketId is required, status is in the enum
Validate(d) == d.ticketId # NoId /\ d.status \in StatusEnum

\* the hook without its guard: a new id on every save
PreSaveAlways(d, timestamp, random) == [d EXCEPT !.ticketId = <<timestamp, random>>]

\* pre('save'): generate the ticket id when the document has none
PreSave(d, timestamp, random) ==
    IF d.ticketId = NoId
    THEN [d EXCEPT !.ticketId = <<timestamp, random>>]
    ELSE d

\* the entry placed in front of the log
Unshift(updates, entry) == <<entry>> \o updates

\* this.updates.push(entry)
Push(updates, entry) == Append(updates, entry)

\* the entry addUpdate builds from its arguments and new Date()
Entry(status, message, updatedBy, isInternal, timestamp) ==
    [status |-> status, message |-> message, updatedBy |-> updatedBy,
     internal |-> isInternal, timestamp |-> timestamp]

\* the synchronous part of addUpdate: push the entry, overwrite status if given
AddUpdateDoc(d, status, message, updatedBy, isInternal, timestamp) ==
    LET pushed == [d EXCEPT !.updates =
                      Push(@, Entry(status, message, updatedBy, isInternal, timestamp))]
    IN  IF status # NoStatus THEN [pushed EXCEPT !.status = status] ELSE pushed

InFlight(c) == calls[c].pc \in {"validate", "hooks", "write"}

\* addUpdate(status, message, updatedBy, isInternal) up to the call of this.save()
addUpdate(c, status, message, updatedBy, isInternal) ==
    /\ calls[c].pc = "idle"
    /\ started < MaxCalls
    /\ doc' = AddUpdateDoc(doc, status, message, updatedBy, isInternal, now)
    /\ calls' = [calls EXCEPT ![c] =
                    [pc |-> "validate", kind |-> "addUpdate", status |-> status, err |-> "",
                     pre |-> [status |-> doc.status, updates |-> doc.updates]]]
    /\ started' = started + 1
    /\ callLog' = Append(callLog, Entry(status, message, updatedBy, isInternal, now))
    /\ overlap' = (overlap \/ \E o \in Callers : InFlight(o))
    /\ UNCHANGED <<persisted, hookRuns, failed, completed, now, priorityVars, limiterVars>>

\* doc.save(options) called directly by a caller (record creation, later edits)
save(c, validateBeforeSave) ==
    /\ calls[c].pc = "idle"
    /\ started < MaxCalls
    /\ calls' = [calls EXCEPT ![c] =
                    [pc |-> IF validateBeforeSave THEN "validate" ELSE "hooks",
                     kind |-> "save", status |-> NoStatus, err |-> "",
                     pre |-> [status |-> doc.status, updates |-> doc.updates]]]
    /\ started' = started + 1
    /\ overlap' = (overlap \/ \E o \in Callers : InFlight(o))
    /\ UNCHANGED <<doc, persisted, callLog, hookRuns, failed, completed, now,
                   priorityVars, limiterVars>>

\* save() runs in three steps, each of which other callers can interleave with:
\* the schema validation (mongoose registers it ahead of the hooks the schema
\* adds with pre('save')), the pre('save') hook, and the write to the store.

\* save(): validation passes and the hooks are next
SaveValidateOk(c) ==
    /\ calls[c].pc = "validate"
    /\ Validate(doc)
    /\ calls' = [calls EXCEPT ![c].pc = "hooks"]
    /\ UNCHANGED <<doc, persisted, started, callLog, hookRuns, overlap, failed, completed,
                   now, priorityVars, limiterVars>>

\* save(): validation fails and the promise is rejected with a ValidationError
SaveValidateFail(c) ==
    /\ calls[c].pc = "validate"
    /\ ~Validate(doc)
    /\ calls' = [calls EXCEPT ![c].pc = "rejected", ![c].err = "ValidationError"]
    /\ failed' = failed + 1
    /\ UNCHANGED <<doc, persisted, started, callLog, hookRuns, overlap, completed,
                   now, priorityVars, limiterVars>>

\* save(): the pre('save') hook runs, then next()
SavePreHook(c) ==
    /\ calls[c].pc = "hooks"
    /\ \E random \in Randoms : doc' = PreSave(doc, now, random)
    /\ calls' = [calls EXCEPT ![c].pc = "write"]
    /\ hookRuns' = hookRuns + 1
    /\ UNCHANGED <<persisted, started, callLog, overlap, failed, completed,
                   now, priorityVars, limiterVars>>

\* save(): the write succeeds and the promise resolves
SaveWriteOk(c) ==
    /\ calls[c].pc = "write"
    /\ persisted' = <<doc>>
    /\ calls' = [calls EXCEPT ![c].pc = "resolved"]
    /\ completed' = IF calls[c].kind = "addUpdate"
                    THEN Append(completed, calls[c].status) ELSE completed
    /\ UNCHANGED <<doc, started, callLog, hookRuns, overlap, failed,
                   now, priorityVars, limiterVars>>

\* save(): the write fails and the promise is rejected
SaveWriteFail(c) ==
    /\ calls[c].pc = "write"
    /\ calls' = [calls EXCEPT ![c].pc = "rejected", ![c].err = "PersistenceError"]
    /\ failed' = failed + 1
    /\ UNCHANGED <<doc, persisted, started, callLog, hookRuns, overlap, completed,
                   now, priorityVars, limiterVars>>

\* the caller has seen the promise settle and may call again
Settle(c) ==
    /\ calls[c].pc \in {"resolved", "rejected"}
    /\ calls' = [calls EXCEPT ![c] = Idle]
    /\ UNCHANGED <<doc, persisted, started, callLog, hookRuns, overlap, failed, completed,
                   now, priorityVars, limiterVars>>

\* time passes
Tick(step, max) ==
    /\ now + step <= max
    /\ now' = now + step
    /\ UNCHANGED <<priorityVars, lifecycleVars, limiterVars>>

-----------------------------------------------------------------------------
(* Rate limiter *)

\* bounds on the limiter's clock: the step of one tick and the last instant
TickStep == 20
MaxTime == 80

\* new RateLimiterMemory({ points: 10, duration: 60 })
points == 10

\* a window ten times as long
durationTenfold == 60 * 10

duration == 60

\* the client addresses (req.ip) and the requests being handled at once
Keys == {"ipA", "ipB"}
Requests == {"r1", "r2"}

NoRecord == <<>>

IdleReq == [pc |-> "idle", ip |-> "", afterExhaust |-> FALSE]

\* rateLimiter.consume(key) at time t on the key's record: a counter that is
\* opened with the first request, refuses the requests beyond `points` without
\* changing anything, and starts afresh once `duration` seconds have elapsed
Consume(rec, t) ==
    IF rec = NoRecord \/ rec[1].expiresAt <= t
    THEN [rec |-> <<[value |-> 1, expiresAt |-> t + duration]>>, ok |-> TRUE, fresh |-> TRUE]
    ELSE IF rec[1].value < points
    THEN [rec |-> <<[rec[1] EXCEPT !.value = @ + 1]>>, ok |-> TRUE, fresh |-> FALSE]
    ELSE [rec |-> rec, ok |-> FALSE, fresh |-> FALSE]

\* rateLimiterMiddleware(req, res, next): the call of rateLimiter.consume(req.ip);
\* the promise it returns is settled and its callback is pending
rateLimiterMiddleware(r, ip) ==
    LET res == Consume(storage[ip], now) IN
    /\ reqs[r].pc = "idle"
    /\ storage' = [storage EXCEPT ![ip] = res.rec]
    /\ reqs' = [reqs EXCEPT ![r] = [pc |-> IF res.ok THEN "then" ELSE "catch", ip |-> ip,
                                    afterExhaust |-> res.fresh /\ exhausted[ip]]]
    /\ windowStart' = [windowStart EXCEPT ![ip] = IF res.fresh THEN now ELSE @]
    /\ admitted' = [admitted EXCEPT ![ip] = IF res.fresh THEN 0 ELSE @]
    /\ exhausted' = [exhausted EXCEPT ![ip] = IF res.fresh THEN FALSE ELSE @ \/ ~res.ok]
    /\ UNCHANGED <<now, priorityVars, lifecycleVars>>

\* .then(() => { next(); })
OnResolved(adm, ip) == [adm EXCEPT ![ip] = @ + 1]

\* a rejection handler that lets the request through as well
OnRejectedNext(adm, ip) == [adm EXCEPT ![ip] = @ + 1]

\* .catch(() => { res.status(429).send('Too Many Requests'); }): next() is not called
OnRejected(adm, ip) == adm

ThenCallback(r) ==
    /\ reqs[r].pc = "then"
    /\ admitted' = OnResolved(admitted, reqs[r].ip)
    /\ reqs' = [reqs EXCEPT ![r] = IdleReq]
    /\ UNCHANGED <<storage, windowStart, exhausted, now, priorityVars, lifecycleVars>>

CatchCallback(r) ==
    /\ reqs[r].pc = "catch"
    /\ admitted' = OnRejected(admitted, reqs[r].ip)
    /\ reqs' = [reqs EXCEPT ![r] = IdleReq]
    /\ UNCHANGED <<storage, windowStart, exhausted, now, priorityVars, lifecycleVars>>

\* the clock moves between requests: promise callbacks run as microtasks, before
\* the event loop takes up the next timer or request
LimiterTick ==
    /\ \A r \in Requests : reqs[r].pc = "idle"
    /\ Tick(TickStep, MaxTime)

-----------------------------------------------------------------------------
(* Specifications *)

PriorityStart ==
    /\ urgencyScore = <<50>>
    /\ sentimentScore = Absent
    /\ priority = "Medium"
    /\ ret = <<>>

LifecycleStart ==
    /\ doc = [ticketId |-> NoId, status |-> "submitted", updates |-> <<>>]
    /\ persisted = <<>>
    /\ calls = [c \in Callers |-> Idle]
    /\ started = 0
    /\ callLog = <<>>
    /\ hookRuns = 0
    /\ overlap = FALSE
    /\ failed = 0
    /\ completed = <<>>

LimiterStart ==
    /\ storage = [k \in Keys |-> NoRecord]
    /\ reqs = [r \in Requests |-> IdleReq]
    /\ admitted = [k \in Keys |-> 0]
    /\ windowStart = [k \in Keys |-> 0]
    /\ exhausted = [k \in Keys |-> FALSE]

\* a new Complaint: status defaults to 'submitted', priority to 'Medium', updates is empty
Init ==
    /\ PriorityStart
    /\ \E id \in ConstructorIds :
          doc = [ticketId |-> id, status |-> "submitted", updates |-> <<>>]
    /\ persisted = <<>>
    /\ calls = [c \in Callers |-> Idle]
    /\ started = 0
    /\ callLog = <<>>
    /\ hookRuns = 0
    /\ overlap = FALSE
    /\ failed = 0
    /\ completed = <<>>
    /\ now = 0
    /\ LimiterStart

Next ==
    \/ \E c \in Callers, status \in StatusArgs, isInternal \in InternalArgs :
          addUpdate(c, status, "message", "officer", isInternal)
    \/ \E c \in Callers, validateBeforeSave \in BOOLEAN : save(c, validateBeforeSave)
    \/ \E c \in Callers : SaveValidateOk(c)
    \/ \E c \in Callers : SaveValidateFail(c)
    \/ \E c \in Callers : SavePreHook(c)
    \/ \E c \in Callers : SaveWriteOk(c)
    \/ \E c \in Callers : SaveWriteFail(c)
    \/ \E c \in Callers : Settle(c)
    \/ Tick(1, MaxClock)

Spec == Init /\ [][Next]_vars

\* the classifier applied to a document holding any pair of scores
InitPriority ==
    /\ urgencyScore \in UrgencyInputs
    /\ sentimentScore \in SentimentInputs
    /\ priority = "Medium"
    /\ ret = <<>>
    /\ LifecycleStart
    /\ now = 0
    /\ LimiterStart

NextPriority ==
    \/ \E us \in UrgencyInputs : SetUrgencyScore(us)
    \/ \E ss \in SentimentInputs : SetSentimentScore(ss)
    \/ calculatePriority

SpecPriority == InitPriority /\ [][NextPriority]_vars

\* the limiter after app.use(rateLimiterMiddleware): no key has a record
InitLimiter ==
    /\ PriorityStart
    /\ LifecycleStart
    /\ now = 0
    /\ LimiterStart

NextLimiter ==
    \/ \E r \in Requests, ip \in Keys : rateLimiterMiddleware(r, ip)
    \/ \E r \in Requests : ThenCallback(r)
    \/ \E r \in Requests : CatchCallback(r)
    \/ LimiterTick

SpecLimiter == InitLimiter /\ [][NextLimiter]_vars

-----------------------------------------------------------------------------
(* Claims *)

\* the rule of the specification, first match wins
RuleTier(u, s) ==
    IF u >= 80 \/ (u >= 60 /\ s <= -5) THEN "Critical"
    ELSE IF u >= 60 \/ (u >= 40 /\ s <= -3) THEN "High"
    ELSE IF u >= 30 THEN "Medium"
    ELSE "Low"

Clamp(x, lo, hi) == IF x < lo THEN lo ELSE IF x > hi THEN hi ELSE x

Supplied == urgencyScore # Absent /\ sentimentScore # Absent

\* C1: for every supplied urgency in [0,10] and sentiment in [-1,1], endpoints
\* included, calculatePriority stores and returns the tier of the first matching
\* rule (Critical, High, Medium, Low).
C1_TierOfRule ==
    (/\ ret # <<>>
     /\ Supplied
     /\ urgencyScore[1] \in 0..100
     /\ sentimentScore[1] \in -10..10)
    => (/\ priority = RuleTier(urgencyScore[1], sentimentScore[1])
        /\ ret = <<priority>>)

\* C10: for every supplied urgency and sentiment, in range or not,
\* calculatePriority returns the tier it returns for the pair clamped to
\* [0,10] x [-1,1].
C10_ClampedTier ==
    (ret # <<>> /\ Supplied)
    => ret = << PriorityOf(<<Clamp(urgencyScore[1], 0, 100)>>,
                           <<Clamp(sentimentScore[1], -10, 10)>>) >>

AddUpdatesInFlight == { c \in Callers : InFlight(c) /\ calls[c].kind = "addUpdate" }

Quiescent == \A c \in Callers : ~InFlight(c)

\* C3: addUpdate is append-only.  The log holds the entries of the calls made, in
\* call order and unchanged, and when every call has succeeded its length is the
\* number of successful calls.
C3_AppendOnly ==
    /\ doc.updates = callLog
    /\ (failed = 0 /\ AddUpdatesInFlight = {}) => Len(doc.updates) = Len(completed)

\* two successful calls with different entries
C3_Witness ==
    /\ failed = 0
    /\ Quiescent
    /\ Len(completed) = 2
    /\ Len(doc.updates) = 2
    /\ doc.updates[1] # doc.updates[2]

\* C4: an addUpdate call whose status is a non-empty string outside the enum fails
\* with a ValidationError and leaves status and updates as they were before the
\* call (stated for a call that no other call overlaps).
C4_RejectedUnchanged ==
    \A c \in Callers :
        (/\ calls[c].kind = "addUpdate"
         /\ calls[c].status # NoStatus
         /\ calls[c].status \notin StatusEnum
         /\ ~overlap
         /\ ~InFlight(c))
        => (/\ calls[c].pc = "rejected"
            /\ calls[c].err = "ValidationError"
            /\ doc.status = calls[c].pre.status
            /\ doc.updates = calls[c].pre.updates)

C7_WriteFailureUnchanged ==
    \A c \in Callers :
        (/\ calls[c].kind = "addUpdate"
         /\ calls[c].pc = "rejected"
         /\ calls[c].err = "PersistenceError"
         /\ ~overlap)
        => (/\ doc.status = calls[c].pre.status
            /\ doc.updates = calls[c].pre.updates)

\* C8: when calls whose saves were in flight together have all completed, no
\* entry is lost and status is the status of the call that completed last
\* (stated for runs in which no save fails).
C8_ConcurrentSerialize ==
    (/\ overlap
     /\ failed = 0
     /\ Quiescent
     /\ completed # <<>>
     /\ completed[Len(completed)] # NoStatus)
    => (/\ Len(doc.updates) = Len(completed)
        /\ doc.status = completed[Len(completed)])

\* C9: closed is terminal: once a record has been stored with status closed and
\* no call is in flight, no later call moves its status away from closed.
C9_ClosedTerminal ==
    [][(/\ Quiescent
        /\ persisted # <<>>
        /\ persisted[1].status = "closed"
        /\ doc.status = "closed")
       => doc'.status = "closed"]_vars

Pending(k) == { r \in Requests : reqs[r].pc = "then" /\ reqs[r].ip = k }

\* C2: for every key and every interleaving of its requests, at most 10 requests
\* are admitted (granted by consume and passed to next()) in one window.
C2_NeverOverAdmit ==
    \A k \in Keys : admitted[k] + Cardinality(Pending(k)) <= 10

\* two requests of one key consumed together with the budget at its end: one is
\* granted, the other is refused
C2_Witness ==
    \E r1, r2 \in Requests :
        /\ reqs[r1].pc = "then"
        /\ reqs[r2].pc = "catch"
        /\ reqs[r1].ip = reqs[r2].ip
        /\ admitted[reqs[r1].ip] = 9

\* C6: a request made once 60 seconds have passed since the key's window was
\* opened is not refused, also when the key had exhausted its budget.
C6_WindowReset ==
    \A r \in Requests :
        reqs[r].pc = "catch" => now - windowStart[reqs[r].ip] < 60

\* a key that was being refused is granted a request in a new window
C6_Witness ==
    \E r \in Requests : reqs[r].pc = "then" /\ reqs[r].afterExhaust

====
